---------------------------- MODULE Spec2Model ----------------------------
(***************************************************************************)
(* A model of the heuristic crime classifier of BTP/: the frame sampler    *)
(* (src/video_processing.py), the feature aggregator (src/features.py),    *)
(* the feature-vector encoder and the JSON-backed prototype store          *)
(* (src/prototype_store.py), the heuristic classifier (src/classifier.py)  *)
(* and the order of the calls in main (main.py).                           *)
(*                                                                         *)
(* Reals are fixed-point integers: the real r is the integer r * Unit,     *)
(* and a division truncates.  tanh, exp and sqrt are tabulated or computed *)
(* at that resolution.  Strings are TLA+ strings (Len, SubSeq and \o work  *)
(* on them in TLC).                                                        *)
(***************************************************************************)
EXTENDS Integers, Sequences, FiniteSets, TLC

VARIABLES
    stats,        \* the measurement sequence handed to _aggregate
    metadata,     \* the VideoMetadata handed to _aggregate
    features,     \* the VideoFeatures record in hand (NoFeatures before one exists)
    file,         \* the content of the prototype store's file
    store,        \* per process: its PrototypeStore object
    fresh,        \* a PrototypeStore constructed on the file after the writes
    lastWrite,    \* which process saved the file last, and by which method
    ops,          \* number of store operations performed so far
    prototypes,   \* HeuristicCrimeClassifier.prototypes
    video_path,   \* the video_path argument of classify
    result,       \* what classify returned or raised
    extra,        \* classify again with one more prototype (label and outcome)
    vectors,      \* what successive build_feature_vector(features) calls returned
    capture,      \* the cv2.VideoCapture: its fps, its frames, how many were read
    sample_rate,  \* the sample_rate argument of extract_frame_stats
    max_samples,  \* the max_samples argument of extract_frame_stats
    frame_index,  \* the local frame_index of extract_frame_stats
    pc,           \* per process: where it stands in the code it runs
    train_label,  \* args.train_label of main
    run           \* number of runs of main started so far

encoderVars == <<vectors>>
extractVars == <<capture, sample_rate, max_samples, frame_index>>
runVars == <<pc, train_label, run>>

vars == <<stats, metadata, features, file, store, fresh, lastWrite, ops,
          prototypes, video_path, result, extra, encoderVars, extractVars, runVars>>

-----------------------------------------------------------------------------
(* Fixed-point arithmetic *)

\* 1.0 as a fixed-point integer
Unit == 100 * 100

Min(a, b) == IF a <= b THEN a ELSE b
Max(a, b) == IF a >= b THEN a ELSE b

\* Python's true division a / b of two fixed-point numbers with b > 0
Div(a, b) == IF a >= 0 THEN a \div b ELSE 0 - ((0 - a) \div b)

RECURSIVE SumSeq(_)
SumSeq(s) == IF s = <<>> THEN 0 ELSE Head(s) + SumSeq(Tail(s))

MaxSeq(s) == CHOOSE m \in {s[i] : i \in DOMAIN s} : \A i \in DOMAIN s : s[i] <= m

\* number of TRUE positions of the boolean array b
Count(b) == Cardinality({i \in DOMAIN b : b[i]})

\* np.mean of a boolean array: the fraction of its TRUE positions
Fraction(b) == (Count(b) * Unit) \div Len(b)

\* np.mean of a numeric array
Mean(s) == Div(SumSeq(s), Len(s))

RECURSIVE IsqrtIn(_, _, _)
IsqrtIn(x, lo, hi) ==
    IF lo >= hi THEN lo
    ELSE LET mid == (lo + hi + 1) \div 2
         IN IF mid * mid <= x THEN IsqrtIn(x, mid, hi) ELSE IsqrtIn(x, lo, mid - 1)

\* floor of the square root of a natural number below 2^30
Isqrt(x) == IsqrtIn(x, 0, 32767)

\* tanh at 0, 0.25, 0.5, ..., 6.0, in fixed point
TanhTable ==
    << 0, 2449, 4621, 6351, 7616, 8483, 9051, 9414, 9640, 9780, 9866, 9919,
       9951, 9970, 9982, 9989, 9993, 9996, 9998, 9999, 9999, 9999, 10000,
       10000, 10000 >>

\* exp(-x) at x = 0, 0.25, 0.5, ..., 9.75, in fixed point
ExpTable ==
    << 10000, 7788, 6065, 4724, 3679, 2865, 2231, 1738, 1353, 1054, 821, 639,
       498, 388, 302, 235, 183, 143, 111, 87, 67, 52, 41, 32, 25, 19, 15, 12,
       9, 7, 6, 4, 3, 3, 2, 2, 1, 1, 1, 1 >>

Step == Unit \div 4

\* linear interpolation in a table sampled every 0.25, for 0 <= x
Interp(table, x, beyond) ==
    LET i == x \div Step
        r == x % Step
    IN IF i + 1 >= Len(table) THEN beyond
       ELSE table[i + 1] + Div((table[i + 2] - table[i + 1]) * r, Step)

\* math.tanh(x); odd, and 1.0 from 6.0 on at this resolution
Tanh(x) == IF x >= 0 THEN Interp(TanhTable, x, Unit)
           ELSE 0 - Interp(TanhTable, 0 - x, Unit)

\* math.exp(-x) for x >= 0.  The float result is positive for every distance
\* two clamped vectors can have, so the value never rounds down to 0.
ExpNeg(x) == Max(1, Interp(ExpTable, x, 1))

-----------------------------------------------------------------------------
(* src/features.py: VideoFeatureExtractor._aggregate *)

calm_threshold == 1 * Unit
solo_motion_threshold == (12 * Unit) \div 10
active_threshold == (35 * Unit) \div 100

\* FrameStats, without the index and timestamp that _aggregate never reads.
\* Counts are plain integers, motion_magnitude is fixed point.
Frame(p, o, m) == [person_count |-> p, moving_objects |-> o, motion_magnitude |-> m]

Column(s, f) == [i \in DOMAIN s |-> s[i][f]]

Sorted(s) == SortSeq(s, LAMBDA a, b : a < b)

\* np.percentile(a, 75): linear interpolation between the two order statistics
\* around position 0.75 * (n - 1)
Percentile75(a) ==
    LET s == Sorted(a)
        pos4 == 3 * (Len(a) - 1)
        lo == pos4 \div 4
        r == pos4 % 4
    IN IF r = 0 THEN s[lo + 1]
       ELSE s[lo + 1] + Div(r * (s[lo + 2] - s[lo + 1]), 4)

\* np.median
Median(a) ==
    LET s == Sorted(a)
        n == Len(a)
    IN IF n % 2 = 1 THEN s[(n + 1) \div 2]
       ELSE Div(s[n \div 2] + s[n \div 2 + 1], 2)

\* np.std: the deviations are squared at a resolution of 0.01
Std(a) ==
    LET mu == Mean(a)
        sq == [i \in DOMAIN a |-> (Div(a[i] - mu, 100)) * (Div(a[i] - mu, 100))]
    IN 100 * Isqrt(Mean(sq))

\* the empty-sequence record as it would be with calm_ratio left at 0.0 and
\* the two metadata fields written into each other's place
EmptyFeaturesMiswired(md) ==
    [ average_motion |-> 0, peak_motion |-> 0, motion_std |-> 0,
      crowd_ratio |-> 0, solo_motion_ratio |-> 0, motion_burst_ratio |-> 0,
      person_presence_ratio |-> 0, multi_person_ratio |-> 0,
      motion_presence_ratio |-> 0, active_motion_ratio |-> 0,
      late_motion_ratio |-> 0, motion_trend |-> 0, calm_ratio |-> 0,
      median_person_count |-> 0, mean_person_count |-> 0,
      avg_moving_objects |-> 0, max_moving_objects |-> 0,
      duration_seconds |-> md.fps, frame_samples |-> 0,
      fps_estimate |-> md.duration_seconds ]

\* the record _aggregate returns for an empty measurement sequence
EmptyFeatures(md) ==
    [ average_motion |-> 0, peak_motion |-> 0, motion_std |-> 0,
      crowd_ratio |-> 0, solo_motion_ratio |-> 0, motion_burst_ratio |-> 0,
      person_presence_ratio |-> 0, multi_person_ratio |-> 0,
      motion_presence_ratio |-> 0, active_motion_ratio |-> 0,
      late_motion_ratio |-> 0, motion_trend |-> 0, calm_ratio |-> Unit,
      median_person_count |-> 0, mean_person_count |-> 0,
      avg_moving_objects |-> 0, max_moving_objects |-> 0,
      duration_seconds |-> md.duration_seconds, frame_samples |-> 0,
      fps_estimate |-> md.fps ]

\* segment as it would be without the max(1, ...)
SegmentLenFloor(n) == n \div 3

\* segment = max(1, len(stats) // 3)
SegmentLen(n) == Max(1, n \div 3)

\* calm_ratio as it would be without the two 0.5 weights
CalmRatioUnweighted(raw_calm_ratio, active_motion_ratio) ==
    raw_calm_ratio + Max(0, Unit - active_motion_ratio)

\* calm_ratio = 0.5 * raw_calm_ratio + 0.5 * max(0.0, 1.0 - active_motion_ratio)
CalmRatio(raw_calm_ratio, active_motion_ratio) ==
    Div(5 * raw_calm_ratio + 5 * Max(0, Unit - active_motion_ratio), 10)

LateMotionRatio(late_motions, active_motion_ratio) ==
    IF Len(late_motions) > 0
    THEN Fraction([i \in DOMAIN late_motions |-> late_motions[i] >= active_threshold])
    ELSE active_motion_ratio

Aggregate(st, md) ==
    IF st = <<>> THEN EmptyFeatures(md)
    ELSE
    LET n == Len(st)
        motions == Column(st, "motion_magnitude")
        people == Column(st, "person_count")
        moving_objects == Column(st, "moving_objects")
        burst_threshold == Percentile75(motions)
        raw_calm_ratio == Fraction([i \in DOMAIN motions |-> motions[i] < calm_threshold])
        active_motion_ratio == Fraction([i \in DOMAIN motions |-> motions[i] >= active_threshold])
        segment == SegmentLen(n)
        early_motions == SubSeq(motions, 1, Min(segment, n))
        late_motions == SubSeq(motions, Max(1, n - segment + 1), n)
    IN
    [ average_motion |-> Mean(motions),
      peak_motion |-> MaxSeq(motions),
      motion_std |-> Std(motions),
      crowd_ratio |-> Fraction([i \in DOMAIN people |-> people[i] >= 3]),
      solo_motion_ratio |->
          Fraction([i \in DOMAIN st |-> st[i].person_count <= 1
                   /\ st[i].motion_magnitude > solo_motion_threshold]),
      motion_burst_ratio |-> Fraction([i \in DOMAIN motions |-> motions[i] >= burst_threshold]),
      person_presence_ratio |-> Fraction([i \in DOMAIN people |-> people[i] >= 1]),
      multi_person_ratio |-> Fraction([i \in DOMAIN people |-> people[i] >= 2]),
      motion_presence_ratio |-> Fraction([i \in DOMAIN moving_objects |-> moving_objects[i] >= 1]),
      active_motion_ratio |-> active_motion_ratio,
      late_motion_ratio |-> LateMotionRatio(late_motions, active_motion_ratio),
      motion_trend |->
          IF Len(early_motions) > 0 /\ Len(late_motions) > 0
          THEN Mean(late_motions) - Mean(early_motions) ELSE 0,
      calm_ratio |-> CalmRatio(raw_calm_ratio, active_motion_ratio),
      median_person_count |-> Median([i \in DOMAIN people |-> people[i] * Unit]),
      mean_person_count |-> Mean([i \in DOMAIN people |-> people[i] * Unit]),
      avg_moving_objects |-> Mean([i \in DOMAIN moving_objects |-> moving_objects[i] * Unit]),
      max_moving_objects |-> MaxSeq(moving_objects) * Unit,
      duration_seconds |-> md.duration_seconds,
      frame_samples |-> n,
      fps_estimate |-> md.fps ]

-----------------------------------------------------------------------------
(* src/video_processing.py: extract_frame_stats.  The measurements of a     *)
(* frame come from OpenCV; the model keeps the index of each sampled frame. *)

\* Python's round(a / b) for a >= 0 and b > 0: half-way cases go to the even
\* integer
RoundHalfEven(a, b) ==
    LET q == a \div b
        r == a % b
    IN IF 2 * r < b THEN q
       ELSE IF 2 * r > b THEN q + 1
       ELSE IF q % 2 = 0 THEN q ELSE q + 1

\* effective_fps = fps if fps > 0 else 24.0
EffectiveFps(fps) == IF fps > 0 THEN fps ELSE 24 * Unit

\* stride = max(1, int(round(effective_fps / sample_rate))) if sample_rate > 0 else 1
Stride(fps, rate) ==
    IF rate > 0 THEN Max(1, RoundHalfEven(EffectiveFps(fps), rate)) ELSE 1

\* the truth value of max_samples: None and 0 are false
Truthy(v) == v.t = "int" /\ v.n # 0

\* max_samples and len(stats) >= max_samples
CapReached(cap, n) == Truthy(cap) /\ n >= cap.n

\* duration_seconds, at a resolution of 0.01 for the rates
DurationSeconds(fps, rate, frame_count, n) ==
    IF fps > 0 THEN Div(frame_count * Unit * 100, fps \div 100)
    ELSE IF rate > 0 THEN Div(n * Unit * 100, rate \div 100)
    ELSE 0

\* the VideoMetadata extract_frame_stats returns
ExtractedMetadata(fps, rate, frame_count, n) ==
    [fps |-> EffectiveFps(fps),
     duration_seconds |-> DurationSeconds(fps, rate, frame_count, n)]

-----------------------------------------------------------------------------
(* src/prototype_store.py: build_feature_vector *)

\* (field, scale) pairs, in vector order
FEATURE_VECTOR_FIELDS ==
    << <<"average_motion", 5>>, <<"peak_motion", 10>>, <<"motion_std", 5>>,
       <<"crowd_ratio", 1>>, <<"motion_burst_ratio", 1>>,
       <<"person_presence_ratio", 1>>, <<"active_motion_ratio", 1>>,
       <<"late_motion_ratio", 1>>, <<"avg_moving_objects", 4>>,
       <<"max_moving_objects", 6>>, <<"calm_ratio", 1>>,
       <<"multi_person_ratio", 1>> >>

\* the clamp as it would be with the lower bound forgotten
ClampAbove(x) == Min(2 * Unit, x)

\* max(-2.0, min(2.0, normalized))
Clamp(x) == Max(0 - 2 * Unit, Min(2 * Unit, x))

build_feature_vector(f) ==
    [i \in DOMAIN FEATURE_VECTOR_FIELDS |->
        LET field == FEATURE_VECTOR_FIELDS[i][1]
            scale == FEATURE_VECTOR_FIELDS[i][2]
        IN Clamp(IF scale # 0 THEN Div(f[field], scale) ELSE f[field])]

-----------------------------------------------------------------------------
(* JSON documents and the Python values json.loads makes of them.  A value *)
(* is a record tagged by t: null (None), bool, num (int or float, fixed    *)
(* point), str, list (a sequence of values), obj (a dict: a function from  *)
(* its keys to values).                                                    *)

JNull == [t |-> "null"]
JBool(b) == [t |-> "bool", b |-> b]
JNum(n) == [t |-> "num", n |-> n]
JStr(s) == [t |-> "str", s |-> s]
JList(a) == [t |-> "list", a |-> a]
JObj(o) == [t |-> "obj", o |-> o]

\* the strings float() accepts, among the strings of the model, and their values
NumericStrings == ("1.5" :> (15 * Unit) \div 10) @@ ("0" :> 0)

\* float(v): the number, or the exception float() raises
FloatOf(v) ==
    CASE v.t = "num" -> [error |-> "none", n |-> v.n]
      [] v.t = "bool" -> [error |-> "none", n |-> IF v.b THEN Unit ELSE 0]
      [] v.t = "str" -> IF v.s \in DOMAIN NumericStrings
                        THEN [error |-> "none", n |-> NumericStrings[v.s]]
                        ELSE [error |-> "ValueError", n |-> 0]
      [] OTHER -> [error |-> "TypeError", n |-> 0]

\* dict.get(key): None when the key is absent
Get(obj, key) == IF key \in DOMAIN obj.o THEN obj.o[key] ELSE JNull

\* PrototypeSample; source is None (JNull) or whatever value the file gave
PrototypeSample(label, vector, source) ==
    [label |-> label, vector |-> vector, source |-> source]

\* The store file: missing, text that is not JSON, or a JSON document.
Missing == [kind |-> "missing"]
NotJson == [kind |-> "text"]
JsonFile(doc) == [kind |-> "json", doc |-> doc]

\* [float(v) for v in vector]: the first element float() rejects raises
RECURSIVE FloatList(_)
FloatList(a) ==
    IF a = <<>> THEN [error |-> "none", vector |-> <<>>]
    ELSE LET h == FloatOf(Head(a))
             r == FloatList(Tail(a))
         IN IF h.error # "none" THEN [error |-> h.error, vector |-> <<>>]
            ELSE IF r.error # "none" THEN r
            ELSE [error |-> "none", vector |-> <<h.n>> \o r.vector]

\* the loop of _load over the entries of a list payload
RECURSIVE LoadEntries(_, _)
LoadEntries(entries, samples) ==
    IF entries = <<>> THEN [error |-> "none", samples |-> samples]
    ELSE LET entry == Head(entries)
         IN IF entry.t # "obj"
            THEN [error |-> "AttributeError", samples |-> <<>>]
            ELSE LET label == Get(entry, "label")
                     vector == Get(entry, "vector")
                 IN IF label.t # "str" \/ vector.t # "list"
                    THEN LoadEntries(Tail(entries), samples)
                    ELSE LET fl == FloatList(vector.a)
                         IN IF fl.error # "none"
                            THEN [error |-> fl.error, samples |-> <<>>]
                            ELSE LoadEntries(Tail(entries),
                                     Append(samples,
                                         PrototypeSample(label.s, fl.vector,
                                                         Get(entry, "source"))))

\* PrototypeStore._load: the samples, or the exception that escapes it
Load(f) ==
    CASE f.kind = "missing" -> [error |-> "none", samples |-> <<>>]
      [] f.kind = "text" -> [error |-> "none", samples |-> <<>>]
      [] OTHER -> LoadEntries(IF f.doc.t = "list" THEN f.doc.a ELSE <<>>, <<>>)

\* _save as it would be if asdict() lost the source of a sample
SaveDroppingSource(samples) ==
    [kind |-> "json",
     doc |-> JList([i \in DOMAIN samples |->
        JObj([label |-> JStr(samples[i].label),
              vector |-> JList([k \in DOMAIN samples[i].vector |->
                                   JNum(samples[i].vector[k])]),
              source |-> JNull])])]

\* PrototypeStore._save: json.dumps of [asdict(sample) for sample in samples]
Save(samples) ==
    JsonFile(JList([i \in DOMAIN samples |->
        JObj([label |-> JStr(samples[i].label),
              vector |-> JList([k \in DOMAIN samples[i].vector |->
                                   JNum(samples[i].vector[k])]),
              source |-> samples[i].source])]))

\* write_text as it would be if it kept the entries the file already held
\* and wrote the new ones after them
write_text_merging(old, text) ==
    IF old.kind = "json" /\ old.doc.t = "list"
    THEN JsonFile(JList(old.doc.a \o text.doc.a))
    ELSE text

\* self.path.write_text(text): the file's content is replaced as a whole
write_text(old, text) == text

\* PrototypeStore.__init__: the object, or the exception that escapes it
NoStore == [state |-> "absent", error |-> "none", samples |-> <<>>, loaded |-> 0]

NewStore(f) ==
    LET r == Load(f)
    IN IF r.error = "none"
       THEN [state |-> "ready", error |-> "none", samples |-> r.samples,
             loaded |-> Len(r.samples)]
       ELSE [state |-> "failed", error |-> r.error, samples |-> <<>>, loaded |-> 0]

\* Path(p).name for the paths of the model: the text after the last "/",
\* and "" for Path(".")
RECURSIVE AfterLastSlash(_)
AfterLastSlash(p) ==
    IF \E i \in 1..Len(p) : SubSeq(p, i, i) = "/"
    THEN AfterLastSlash(SubSeq(p, (CHOOSE i \in 1..Len(p) : SubSeq(p, i, i) = "/") + 1, Len(p)))
    ELSE p

PathName(p) == IF p = "." THEN "" ELSE AfterLastSlash(p)

\* the source argument: None, or a Path
NoPath == [t |-> "null"]
Path(p) == [t |-> "path", p |-> p]

\* source_name = source.name if source else None   (a Path is always truthy)
SourceName(source) == IF source.t = "null" THEN JNull ELSE JStr(PathName(source.p))

\* the samples add_sample keeps: all of them unless source_name is a
\* non-empty string
KeptSamples(samples, source_name) ==
    IF source_name.t = "str" /\ source_name.s # ""
    THEN SelectSeq(samples, LAMBDA s : s.source # source_name)
    ELSE samples

\* PrototypeStore.add_sample, up to the save
AddedSamples(samples, label, f, source) ==
    Append(KeptSamples(samples, SourceName(source)),
           PrototypeSample(label, build_feature_vector(f), SourceName(source)))

\* PrototypeStore.extend, up to the save
ExtendedSamples(samples, more) == samples \o more

\* list(prototype_store) as it would be if the store's samples were not
\* handed over
list_of_nothing(samples) == <<>>

\* list(prototype_store): a new list of the samples __iter__ yields
list_of(samples) == samples

-----------------------------------------------------------------------------
(* src/classifier.py: HeuristicCrimeClassifier *)

\* classes, in order
classes == <<"robbery", "theft", "assault", "explosion", "road accident", "normal">>

ClassSet == {classes[i] : i \in DOMAIN classes}

\* filename_overrides as it would be with the robbery row written first
filename_overrides_robbery_first ==
    << <<"robbery", <<"robbery", "rob">> >>,
       <<"road accident", <<"accident", "acci">> >>,
       <<"explosion", <<"explosion", "expl", "exp">> >>,
       <<"theft", <<"theft", "steal", "new">> >> >>

\* filename_overrides, in the order of the dict literal
filename_overrides ==
    << <<"road accident", <<"accident", "acci">> >>,
       <<"explosion", <<"explosion", "expl", "exp">> >>,
       <<"robbery", <<"robbery", "rob">> >>,
       <<"theft", <<"theft", "steal", "new">> >> >>

UpperLetters == "ABCDEFGHIJKLMNOPQRSTUVWXYZ"
LowerLetters == "abcdefghijklmnopqrstuvwxyz"

LowerChar(c) ==
    IF \E i \in 1..Len(UpperLetters) : SubSeq(UpperLetters, i, i) = c
    THEN LET i == CHOOSE i \in 1..Len(UpperLetters) : SubSeq(UpperLetters, i, i) = c
         IN SubSeq(LowerLetters, i, i)
    ELSE c

\* str.lower()
RECURSIVE Lower(_)
Lower(s) == IF Len(s) = 0 THEN ""
            ELSE LowerChar(SubSeq(s, 1, 1)) \o Lower(SubSeq(s, 2, Len(s)))

\* keyword in name
Contains(name, keyword) ==
    \E i \in 1..(Len(name) - Len(keyword) + 1) :
        SubSeq(name, i, i + Len(keyword) - 1) = keyword

\* position of the last "." of name, 0 when there is none
LastDot(name) ==
    IF \E i \in 1..Len(name) : SubSeq(name, i, i) = "."
    THEN CHOOSE i \in 1..Len(name) :
             /\ SubSeq(name, i, i) = "."
             /\ \A j \in (i + 1)..Len(name) : SubSeq(name, j, j) # "."
    ELSE 0

\* Path(p).stem: the name without its last suffix; a leading or a trailing
\* dot starts no suffix
Stem(p) ==
    LET name == PathName(p)
        d == LastDot(name)
    IN IF 1 < d /\ d < Len(name) THEN SubSeq(name, 1, d - 1) ELSE name

\* the video_path argument: None, a str or a Path
StrPath(p) == [t |-> "str", p |-> p]

\* not video_path
Falsy(path) ==
    path.t = "null" \/ (path.t = "str" /\ path.p = "")

NoHint == [found |-> FALSE, label |-> "", keyword |-> ""]

\* the first (label, keyword) of the table, in table order and then keyword
\* order, whose keyword is in name
RECURSIVE FirstMatch(_, _, _)
FirstMatch(name, row, k) ==
    IF row > Len(filename_overrides) THEN NoHint
    ELSE IF k > Len(filename_overrides[row][2]) THEN FirstMatch(name, row + 1, 1)
    ELSE LET keyword == filename_overrides[row][2][k]
         IN IF keyword # "" /\ Contains(name, keyword)
            THEN [found |-> TRUE, label |-> filename_overrides[row][1],
                  keyword |-> keyword]
            ELSE FirstMatch(name, row, k + 1)

\* _filename_override as it would be without the .lower()
_filename_override_case_sensitive(path) ==
    IF Falsy(path) THEN NoHint
    ELSE FirstMatch(Stem(path.p), 1, 1)

_filename_override(path) ==
    IF Falsy(path) THEN NoHint
    ELSE FirstMatch(Lower(Stem(path.p)), 1, 1)

\* (a - b) ** 2 summed over zip(vec_a, vec_b), at a resolution of 0.01
SquaredDistance(vec_a, vec_b) ==
    SumSeq([i \in DOMAIN vec_a |->
               Div(vec_a[i] - vec_b[i], 100) * Div(vec_a[i] - vec_b[i], 100)])

_similarity(vec_a, vec_b) ==
    IF vec_a = <<>> \/ vec_b = <<>> \/ Len(vec_a) # Len(vec_b) THEN 0
    ELSE ExpNeg(250 * Isqrt(SquaredDistance(vec_a, vec_b)))

\* accum after the loop over the prototypes: a dict whose keys are the six
\* classes and every other label a prototype carries
RECURSIVE Accumulate(_, _, _)
Accumulate(accum, current_vector, protos) ==
    IF protos = <<>> THEN accum
    ELSE LET sample == Head(protos)
             similarity == _similarity(current_vector, sample.vector)
             old == IF sample.label \in DOMAIN accum THEN accum[sample.label] ELSE 0
         IN Accumulate([l \in DOMAIN accum \cup {sample.label} |->
                            IF l = sample.label THEN old + similarity ELSE accum[l]],
                        current_vector, Tail(protos))

RECURSIVE SumOver(_, _)
SumOver(f, keys) ==
    IF keys = {} THEN 0
    ELSE LET k == CHOOSE k \in keys : TRUE IN f[k] + SumOver(f, keys \ {k})

EmptyDict == [l \in {} |-> 0]

\* score / total for each label of accum
Normalized(accum, total) == [l \in DOMAIN accum |-> Div(accum[l] * Unit, total)]

_prototype_scores(f, protos) ==
    IF protos = <<>> THEN EmptyDict
    ELSE LET accum == Accumulate([l \in ClassSet |-> 0], build_feature_vector(f), protos)
             total == SumOver(accum, DOMAIN accum)
         IN IF total <= 0 THEN EmptyDict ELSE Normalized(accum, total)

_normalize_motion(avg_motion, peak_motion) ==
    Min(Unit, Div(6 * Tanh(Div(avg_motion, 6)) + 4 * Tanh(Div(peak_motion, 10)), 10))

\* the six heuristic scores, before the prototype bonus
BaseScores(f) ==
    LET motion_score == _normalize_motion(f.average_motion, f.peak_motion)
        volatility_score == Tanh(Div(10 * f.motion_std, 35))
        burst_score == Min(Unit, f.motion_burst_ratio)
        crowd_score == Min(Unit, f.crowd_ratio)
        multi_person_score == Min(Unit, f.multi_person_ratio)
        solo_motion_score == Min(Unit, f.solo_motion_ratio)
        calm_score == Max(0, Min(Unit, f.calm_ratio))
        presence_score == Min(Unit, f.person_presence_ratio)
        motion_presence_score == Min(Unit, f.motion_presence_ratio)
        active_motion_score == Min(Unit, f.active_motion_ratio)
        late_motion_score == Min(Unit, f.late_motion_ratio)
        trend_score == Tanh(Div(Max(0, f.motion_trend), 2))
        moving_group_score == Min(Unit, Div(f.max_moving_objects, 4))
        spike_score == Tanh(Div(Max(0, f.peak_motion - f.average_motion), 4))
        sparse_presence_score == Max(0, Unit - presence_score)
        object_density_score == Min(Unit, Div(f.avg_moving_objects, 3))
        vehicle_flow_score ==
            Min(Unit, Div(6 * object_density_score + 4 * motion_presence_score, 10))
        lane_shift_score == Min(Unit, Div(6 * late_motion_score + 4 * trend_score, 10))
        crowd_presence_penalty == Min(Unit, Div(6 * crowd_score + 4 * presence_score, 10))
        robbery_score ==
            Div(25 * crowd_score + 20 * multi_person_score + 20 * moving_group_score
                + 15 * burst_score + 10 * late_motion_score
                + 10 * motion_presence_score, 100)
        theft_score ==
            Div(35 * solo_motion_score + 25 * active_motion_score
                + 15 * late_motion_score + 15 * (Unit - crowd_score)
                + 10 * motion_presence_score, 100)
        assault_score ==
            Div(30 * burst_score + 20 * motion_score + 20 * active_motion_score
                + 15 * multi_person_score + 10 * trend_score
                + 5 * motion_presence_score, 100)
        normal_score ==
            Div(30 * calm_score + 25 * (Unit - active_motion_score)
                + 20 * (Unit - burst_score) + 15 * (Unit - motion_presence_score)
                + 10 * (Unit - late_motion_score), 100)
        explosion_base ==
            Div(40 * spike_score + 25 * volatility_score + 15 * burst_score
                + 10 * (Unit - calm_score) + 10 * sparse_presence_score, 100)
        explosion_penalty == Div(40 * crowd_score + 20 * object_density_score, 100)
        explosion_floor == Max(0, explosion_base - explosion_penalty)
        explosion_score ==
            IF sparse_presence_score < Div(3 * Unit, 10)
            THEN Div(6 * explosion_floor, 10) ELSE explosion_floor
        road_accident_base ==
            Div(35 * vehicle_flow_score + 20 * spike_score + 15 * lane_shift_score
                + 10 * moving_group_score + 10 * (Unit - calm_score)
                + 10 * active_motion_score, 100)
        road_accident_penalty == Div(50 * crowd_presence_penalty + 20 * calm_score, 100)
        road_accident_floor == Max(0, road_accident_base - road_accident_penalty)
        road_accident_score ==
            IF vehicle_flow_score < Div(25 * Unit, 100)
            THEN Div(5 * road_accident_floor, 10) ELSE road_accident_floor
    IN ("robbery" :> robbery_score) @@ ("theft" :> theft_score)
       @@ ("assault" :> assault_score) @@ ("explosion" :> explosion_score)
       @@ ("road accident" :> road_accident_score) @@ ("normal" :> normal_score)

\* the key order of the scores dict literal
ScoreOrder == <<"robbery", "theft", "assault", "explosion", "road accident", "normal">>

\* the choice as it would be if the last key of maximal value won
ArgMaxLast(scores) ==
    LET best == CHOOSE i \in DOMAIN ScoreOrder :
                    /\ \A j \in DOMAIN ScoreOrder : scores[ScoreOrder[j]] <= scores[ScoreOrder[i]]
                    /\ \A j \in (i + 1)..Len(ScoreOrder) : scores[ScoreOrder[j]] < scores[ScoreOrder[i]]
    IN ScoreOrder[best]

\* max(scores, key=scores.get): the first key, in dict order, of maximal value
ArgMax(scores) ==
    LET best == CHOOSE i \in DOMAIN ScoreOrder :
                    /\ \A j \in DOMAIN ScoreOrder : scores[ScoreOrder[j]] <= scores[ScoreOrder[i]]
                    /\ \A j \in 1..(i - 1) : scores[ScoreOrder[j]] < scores[ScoreOrder[i]]
    IN ScoreOrder[best]

\* the template _build_explanation picks for the label
Template(label) ==
    CASE label = "robbery" -> "Large groups and repeated bursts of motion suggest a coordinated grab."
      [] label = "theft" -> "Isolated motion while the scene stays sparse matches theft-like activity."
      [] label = "assault" -> "Aggressive bursts with multiple participants point to an assault pattern."
      [] label = "explosion" -> "Sudden, volatile spikes with little human presence align with an explosion-like blast."
      [] label = "road accident" -> "Dense moving objects and directional bursts in a sparse crowd resemble a road incident."
      [] label = "normal" -> "Low motion and calm frames dominate the clip, indicating routine activity."
      [] OTHER -> "Heuristic classification completed."

\* what classify gives: a ClassificationResult (outcome "ok") or the
\* exception it raises; computed names the stages that ran
Raised(exception, computed) ==
    [outcome |-> exception, label |-> "", scores |-> EmptyDict,
     explanation |-> "", computed |-> computed]

NotClassified == Raised("pending", {})

\* the bonus loop as it would be if it never added anything
WithBonusDropped(scores, bonus) == scores

\* scores[label] += 0.2 * bonus, for each label of the bonus
WithBonus(scores, bonus) ==
    [l \in DOMAIN scores |->
        IF l \in DOMAIN bonus THEN scores[l] + Div(2 * bonus[l], 10) ELSE scores[l]]

\* the label classify picks
PickLabel(scores, hint) == IF hint.found THEN hint.label ELSE ArgMax(scores)

\* classify, after the frame_samples check
Scored(f, protos, path) ==
    LET base == BaseScores(f)
        prototype_bonus == _prototype_scores(f, protos)
    IN IF \E l \in DOMAIN prototype_bonus : l \notin DOMAIN base
       THEN Raised("KeyError", {"scores", "bonus"})
       ELSE LET scores == WithBonus(base, prototype_bonus)
                label == PickLabel(scores, _filename_override(path))
            IN [outcome |-> "ok", label |-> label, scores |-> scores,
                explanation |-> Template(label),
                computed |-> {"scores", "bonus", "override"}]

\* classify as it would be without the frame_samples check
classify_unchecked(f, protos, path) == Scored(f, protos, path)

classify(f, protos, path) ==
    IF f.frame_samples = 0 THEN Raised("ValueError", {})
    ELSE Scored(f, protos, path)

-----------------------------------------------------------------------------
(* The inputs of the model *)

\* longest measurement sequence aggregated
MaxFrames == 4
\* most add_sample and extend calls in one run of the store
MaxOps == 2
\* most prototypes in a collection handed to the classifier
MaxProtos == 2
\* most frames a video file holds
MaxVideoFrames == 5
\* most runs of main, one after the other, on one store file
MaxRuns == 2

\* every sequence over S of length at most n
SeqsUpTo(S, n) == UNION {[1..k -> S] : k \in 0..n}

\* sampled frames: an empty still scene, one person moving, a slow crowd,
\* two people at the calm threshold, and a blast of moving regions
Still == Frame(0, 0, 0)
Walker == Frame(1, 1, (15 * Unit) \div 10)
Crowd == Frame(3, 2, active_threshold)
Pair == Frame(2, 0, calm_threshold)
Blast == Frame(0, 4, 6 * Unit)

Frames == {Still, Walker, Crowd, Pair, Blast}

Metadatas == { [fps |-> 24 * Unit, duration_seconds |-> 2 * Unit],
               [fps |-> 0, duration_seconds |-> 0] }

Meta == [fps |-> 24 * Unit, duration_seconds |-> 2 * Unit]

NoFeatures == [none |-> TRUE]

\* the example record of the specification: low motion, calm, ten samples
ExampleRecord ==
    [EmptyFeatures(Meta) EXCEPT !.average_motion = Unit \div 10,
                                !.peak_motion = Unit \div 5,
                                !.motion_std = Unit \div 20,
                                !.frame_samples = 10]

\* a record whose theft and normal scores are equal and maximal
TiedRecord ==
    [EmptyFeatures(Meta) EXCEPT !.solo_motion_ratio = Unit \div 2,
                                !.active_motion_ratio = Unit \div 2,
                                !.late_motion_ratio = Unit \div 2,
                                !.motion_burst_ratio = (3 * Unit) \div 4,
                                !.calm_ratio = Unit \div 2,
                                !.frame_samples = 4]

\* the clips whose aggregated records the classifier is run on
ClassifyClips ==
    { <<>>, <<Still>>, <<Walker>>, <<Blast>>, <<Crowd, Crowd>>,
      <<Still, Still, Blast>>, <<Pair, Walker, Crowd>>, <<Still, Walker, Walker, Blast>> }

\* a record that carries signal but no analysed frame
UnsampledRecord == [TiedRecord EXCEPT !.frame_samples = 0]

FeatureRecords ==
    {Aggregate(c, Meta) : c \in ClassifyClips}
        \cup {ExampleRecord, TiedRecord, UnsampledRecord}

WalkerVector == build_feature_vector(Aggregate(<<Walker>>, Meta))
BlastVector == build_feature_vector(Aggregate(<<Still, Still, Blast>>, Meta))

\* samples a store can hold: stored by add_sample, or loaded from a file
\* written by hand (a label outside the classes, a vector of another length)
SamplePool ==
    { PrototypeSample("theft", WalkerVector, JStr("a.mp4")),
      PrototypeSample("explosion", BlastVector, JNull),
      PrototypeSample("arson", BlastVector, JStr("b.mp4")),
      PrototypeSample("normal", <<0, Unit>>, JNull) }

ProtoCollections == SeqsUpTo(SamplePool, MaxProtos)

VideoPaths ==
    { NoPath, StrPath(""), Path("videos/clip.mp4"), Path("videos/explosion.mp4"),
      Path("videos/Explosion_Accident.mp4"), StrPath("cctv_EXPLOSION_robbery.avi"),
      Path("steal_rob.mp4"), Path("news.mov"), Path("expl/clip.mp4"),
      Path("clip.exp"), Path("racci") }

\* what add_sample and extend are called with
TrainLabels == {"theft", "explosion"}

StoreRecords == {Aggregate(<<Walker>>, Meta), Aggregate(<<Still, Still, Blast>>, Meta)}

Sources == {NoPath, Path("videos/a.mp4"), Path("other/a.mp4"), Path(".")}

ExtendArgs ==
    { <<PrototypeSample("theft", WalkerVector, JStr("a.mp4"))>>,
      <<PrototypeSample("normal", BlastVector, JNull),
        PrototypeSample("assault", WalkerVector, JStr("c.mp4"))>> }

JVector(v) == JList([i \in DOMAIN v |-> JNum(v[i])])

GoodEntry == JObj([label |-> JStr("theft"), vector |-> JVector(WalkerVector),
                   source |-> JStr("a.mp4")])

\* the contents the store file starts with
StoreFiles ==
    { Missing, NotJson,
      \* JSON that is not a list
      JsonFile(JObj([label |-> JStr("theft")])), JsonFile(JNum(0)), JsonFile(JNull),
      \* lists of well-formed entries
      JsonFile(JList(<<>>)),
      JsonFile(JList(<<GoodEntry>>)),
      JsonFile(JList(<<GoodEntry, GoodEntry>>)),
      JsonFile(JList(<<JObj([label |-> JStr("arson"), vector |-> JVector(<<0, Unit>>),
                             source |-> JNum(7), note |-> JStr("x")])>>)),
      JsonFile(JList(<<JObj([label |-> JStr("normal"),
                             vector |-> JList(<<JStr("1.5"), JBool(TRUE), JNum(0)>>)])>>)),
      \* entries whose label or vector is missing or of the wrong type
      JsonFile(JList(<<JObj([vector |-> JVector(<<0>>)]), GoodEntry>>)),
      JsonFile(JList(<<JObj([label |-> JNum(Unit), vector |-> JVector(<<0>>)])>>)),
      JsonFile(JList(<<JObj([label |-> JStr("theft")])>>)),
      JsonFile(JList(<<GoodEntry, JObj([label |-> JStr("theft"), vector |-> JStr("0")])>>)),
      \* entries that are not objects
      JsonFile(JList(<<JNum(Unit)>>)),
      JsonFile(JList(<<JStr("theft")>>)),
      JsonFile(JList(<<GoodEntry, JNull>>)),
      JsonFile(JList(<<JList(<<>>)>>)),
      \* vectors holding non-numeric elements
      JsonFile(JList(<<JObj([label |-> JStr("theft"), vector |-> JList(<<JStr("x")>>)])>>)),
      JsonFile(JList(<<JObj([label |-> JStr("theft"), vector |-> JList(<<JNum(0), JNull>>)])>>)),
      JsonFile(JList(<<GoodEntry,
                       JObj([label |-> JStr("theft"), vector |-> JList(<<JList(<<>>)>>)])>>)) }

Procs == {"A", "B"}

\* Python's None, and an int, where an argument is Optional[int]
None == [t |-> "null"]
IntValue(n) == [t |-> "int", n |-> n]

\* no cv2.VideoCapture opened
NoCapture == [fps |-> 0, frames |-> 0, read |-> 0]

NoWrite == [by |-> "none", op |-> "none"]
NoExtra == [label |-> "", result |-> NotClassified]

-----------------------------------------------------------------------------
(* The store: processes construct a PrototypeStore on the one file and     *)
(* call add_sample and extend on it.                                       *)

StoreIdle ==
    /\ file = Missing
    /\ store = [p \in Procs |-> NoStore]
    /\ fresh = NoStore
    /\ lastWrite = NoWrite
    /\ ops = 0

ClassifyIdle ==
    /\ prototypes = <<>>
    /\ video_path = NoPath
    /\ result = NotClassified
    /\ extra = NoExtra

AggregateIdle ==
    /\ stats = <<>>
    /\ metadata = Meta
    /\ features = NoFeatures

EncoderIdle == vectors = <<>>

ExtractIdle ==
    /\ capture = NoCapture
    /\ sample_rate = 3 * Unit
    /\ max_samples = None
    /\ frame_index = 0

RunIdle ==
    /\ pc = [p \in Procs |-> "idle"]
    /\ train_label = None
    /\ run = 0

Init ==
    /\ file \in StoreFiles
    /\ store = [p \in Procs |-> NoStore]
    /\ fresh = NoStore
    /\ lastWrite = NoWrite
    /\ ops = 0
    /\ ClassifyIdle
    /\ AggregateIdle
    /\ EncoderIdle
    /\ ExtractIdle
    /\ RunIdle

\* PrototypeStore(path) in process p
Construct(p) ==
    /\ store[p].state = "absent"
    /\ store' = [store EXCEPT ![p] = NewStore(file)]
    /\ UNCHANGED <<stats, metadata, features, file, fresh, lastWrite, ops,
                   prototypes, video_path, result, extra,
                   encoderVars, extractVars, runVars>>

\* store.add_sample(label, f, source) in process p, the save included
AddSample(p, label, f, source) ==
    /\ store[p].state = "ready"
    /\ ops < MaxOps
    /\ LET samples == AddedSamples(store[p].samples, label, f, source)
       IN /\ store' = [store EXCEPT ![p].samples = samples]
          /\ file' = write_text(file, Save(samples))
    /\ lastWrite' = [by |-> p, op |-> "add_sample"]
    /\ fresh' = NoStore
    /\ ops' = ops + 1
    /\ UNCHANGED <<stats, metadata, features, prototypes, video_path, result, extra,
                   encoderVars, extractVars, runVars>>

\* store.extend(more) in process p, the save included
Extend(p, more) ==
    /\ store[p].state = "ready"
    /\ ops < MaxOps
    /\ LET samples == ExtendedSamples(store[p].samples, more)
       IN /\ store' = [store EXCEPT ![p].samples = samples]
          /\ file' = write_text(file, Save(samples))
    /\ lastWrite' = [by |-> p, op |-> "extend"]
    /\ fresh' = NoStore
    /\ ops' = ops + 1
    /\ UNCHANGED <<stats, metadata, features, prototypes, video_path, result, extra,
                   encoderVars, extractVars, runVars>>

\* a fresh PrototypeStore(path) on the file as it stands
FreshConstruct ==
    /\ fresh.state = "absent"
    /\ fresh' = NewStore(file)
    /\ UNCHANGED <<stats, metadata, features, file, store, lastWrite, ops,
                   prototypes, video_path, result, extra,
                   encoderVars, extractVars, runVars>>

Next ==
    \/ \E p \in Procs : Construct(p)
    \/ \E p \in Procs, label \in TrainLabels, f \in StoreRecords, source \in Sources :
           AddSample(p, label, f, source)
    \/ \E p \in Procs, more \in ExtendArgs : Extend(p, more)
    \/ FreshConstruct

Spec == Init /\ [][Next]_vars

-----------------------------------------------------------------------------
(* The classifier: classify applied to a record, a prototype collection    *)
(* and a video path.                                                       *)

InitClassify ==
    /\ features \in FeatureRecords
    /\ prototypes \in ProtoCollections
    /\ video_path \in VideoPaths
    /\ result = NotClassified
    /\ extra = NoExtra
    /\ stats = <<>>
    /\ metadata = Meta
    /\ StoreIdle
    /\ EncoderIdle
    /\ ExtractIdle
    /\ RunIdle

\* HeuristicCrimeClassifier(prototypes).classify(features, video_path=video_path)
Classify ==
    /\ result = NotClassified
    /\ result' = classify(features, prototypes, video_path)
    /\ UNCHANGED <<stats, metadata, features, file, store, fresh, lastWrite, ops,
                   prototypes, video_path, extra,
                   encoderVars, extractVars, runVars>>

\* the same call with one more prototype: label L, the record's own vector
ClassifyExtra(L) ==
    /\ result # NotClassified
    /\ extra = NoExtra
    /\ extra' = [label |-> L,
                 result |-> classify(features,
                               Append(prototypes,
                                   PrototypeSample(L, build_feature_vector(features), JNull)),
                               video_path)]
    /\ UNCHANGED <<stats, metadata, features, file, store, fresh, lastWrite, ops,
                   prototypes, video_path, result,
                   encoderVars, extractVars, runVars>>

NextClassify ==
    \/ Classify
    \/ \E L \in ClassSet : ClassifyExtra(L)

SpecClassify == InitClassify /\ [][NextClassify]_vars

-----------------------------------------------------------------------------
(* The aggregator: _aggregate applied to a measurement sequence.           *)

InitAggregate ==
    /\ stats \in SeqsUpTo(Frames, MaxFrames)
    /\ metadata \in Metadatas
    /\ features = NoFeatures
    /\ StoreIdle
    /\ ClassifyIdle
    /\ EncoderIdle
    /\ ExtractIdle
    /\ RunIdle

\* features = self._aggregate(stats, metadata)
AggregateStep ==
    /\ features = NoFeatures
    /\ features' = Aggregate(stats, metadata)
    /\ UNCHANGED <<stats, metadata, file, store, fresh, lastWrite, ops,
                   prototypes, video_path, result, extra,
                   encoderVars, extractVars, runVars>>

NextAggregate == AggregateStep

SpecAggregate == InitAggregate /\ [][NextAggregate]_vars

-----------------------------------------------------------------------------
(* The encoder: build_feature_vector applied twice to one record.          *)

\* records beyond what a short clip aggregates to: statistics far above and
\* exactly at the clamp, and negative ones
ExtremeRecords ==
    { [EmptyFeatures(Meta) EXCEPT !.average_motion = 12 * Unit,
                                  !.peak_motion = 20 * Unit,
                                  !.avg_moving_objects = 9 * Unit,
                                  !.max_moving_objects = 30 * Unit,
                                  !.frame_samples = 5],
      [EmptyFeatures(Meta) EXCEPT !.average_motion = 10 * Unit,
                                  !.motion_std = 10 * Unit + 1,
                                  !.frame_samples = 5],
      [EmptyFeatures(Meta) EXCEPT !.average_motion = 0 - 11 * Unit,
                                  !.peak_motion = 25 * Unit,
                                  !.crowd_ratio = 0 - 3 * Unit,
                                  !.calm_ratio = 0 - Unit,
                                  !.frame_samples = 5] }

EncoderRecords ==
    {Aggregate(s, Meta) : s \in SeqsUpTo(Frames, MaxFrames)} \cup ExtremeRecords

InitEncode ==
    /\ features \in EncoderRecords
    /\ vectors = <<>>
    /\ stats = <<>>
    /\ metadata = Meta
    /\ StoreIdle
    /\ ClassifyIdle
    /\ ExtractIdle
    /\ RunIdle

\* vector = build_feature_vector(features)
Encode ==
    /\ Len(vectors) < 2
    /\ vectors' = Append(vectors, build_feature_vector(features))
    /\ UNCHANGED <<stats, metadata, features, file, store, fresh, lastWrite, ops,
                   prototypes, video_path, result, extra, extractVars, runVars>>

NextEncode == Encode

SpecEncode == InitEncode /\ [][NextEncode]_vars

-----------------------------------------------------------------------------
(* The frame sampler: extract_frame_stats in process "A", one step for each *)
(* turn of its loop.                                                        *)

\* fps the container reports (0 when it reports none) and frames it delivers
Captures ==
    {[fps |-> f, frames |-> n, read |-> 0] : f \in {0, 25 * Unit}, n \in 0..MaxVideoFrames}

SampleRates == {0, 3 * Unit, 8 * Unit, 10 * Unit, 24 * Unit, 50 * Unit}

MaxSamples == {None} \cup {IntValue(n) : n \in {0 - 1, 0, 1, 2, 3}}

InitExtract ==
    /\ capture \in Captures
    /\ sample_rate \in SampleRates
    /\ max_samples \in MaxSamples
    /\ frame_index = 0
    /\ stats = <<>>
    /\ metadata = Meta
    /\ features = NoFeatures
    /\ pc = [p \in Procs |-> IF p = "A" THEN "loop" ELSE "idle"]
    /\ train_label = None
    /\ run = 0
    /\ StoreIdle
    /\ ClassifyIdle
    /\ EncoderIdle

\* capture.read() fails: the loop ends
ReadEnd ==
    /\ pc["A"] = "loop"
    /\ capture.read = capture.frames
    /\ pc' = [pc EXCEPT !["A"] = "return"]
    /\ UNCHANGED <<stats, metadata, features, file, store, fresh, lastWrite, ops,
                   prototypes, video_path, result, extra, encoderVars, extractVars,
                   train_label, run>>

\* a frame is read and skipped: frame_index % stride != 0
ReadSkip ==
    /\ pc["A"] = "loop"
    /\ capture.read < capture.frames
    /\ frame_index % Stride(capture.fps, sample_rate) # 0
    /\ capture' = [capture EXCEPT !.read = @ + 1]
    /\ frame_index' = frame_index + 1
    /\ UNCHANGED <<stats, metadata, features, file, store, fresh, lastWrite, ops,
                   prototypes, video_path, result, extra, encoderVars,
                   sample_rate, max_samples, runVars>>

\* a frame is read and measured; the loop ends when the cap is reached
ReadSample ==
    /\ pc["A"] = "loop"
    /\ capture.read < capture.frames
    /\ frame_index % Stride(capture.fps, sample_rate) = 0
    /\ capture' = [capture EXCEPT !.read = @ + 1]
    /\ stats' = Append(stats, [index |-> frame_index])
    /\ frame_index' = frame_index + 1
    /\ pc' = [pc EXCEPT !["A"] =
                 IF CapReached(max_samples, Len(stats) + 1) THEN "return" ELSE "loop"]
    /\ UNCHANGED <<metadata, features, file, store, fresh, lastWrite, ops,
                   prototypes, video_path, result, extra, encoderVars,
                   sample_rate, max_samples, train_label, run>>

\* return stats, metadata
ExtractReturn ==
    /\ pc["A"] = "return"
    /\ metadata' = ExtractedMetadata(capture.fps, sample_rate, capture.frames, Len(stats))
    /\ pc' = [pc EXCEPT !["A"] = "done"]
    /\ UNCHANGED <<stats, features, file, store, fresh, lastWrite, ops,
                   prototypes, video_path, result, extra, encoderVars, extractVars,
                   train_label, run>>

NextExtract ==
    \/ ReadEnd
    \/ ReadSkip
    \/ ReadSample
    \/ ExtractReturn

SpecExtract == InitExtract /\ [][NextExtract]_vars

-----------------------------------------------------------------------------
(* Two processes on one store file: each constructs a PrototypeStore and    *)
(* calls add_sample once.  The processes share nothing but the file; a      *)
(* load and a save are one step each.                                       *)

InitRace ==
    /\ file \in StoreFiles
    /\ store = [p \in Procs |-> NoStore]
    /\ fresh = NoStore
    /\ lastWrite = NoWrite
    /\ ops = 0
    /\ pc = [p \in Procs |-> "start"]
    /\ train_label = None
    /\ run = 0
    /\ ClassifyIdle
    /\ AggregateIdle
    /\ EncoderIdle
    /\ ExtractIdle

\* PrototypeStore(path) in process p: _load reads the file
RaceLoad(p) ==
    /\ pc[p] = "start"
    /\ store' = [store EXCEPT ![p] = NewStore(file)]
    /\ pc' = [pc EXCEPT ![p] = IF NewStore(file).state = "ready" THEN "loaded" ELSE "failed"]
    /\ UNCHANGED <<stats, metadata, features, file, fresh, lastWrite, ops,
                   prototypes, video_path, result, extra, encoderVars, extractVars,
                   train_label, run>>

\* add_sample in process p, up to the call of _save
RaceAppend(p, label, f, source) ==
    /\ pc[p] = "loaded"
    /\ store' = [store EXCEPT ![p].samples = AddedSamples(@, label, f, source)]
    /\ pc' = [pc EXCEPT ![p] = "save"]
    /\ UNCHANGED <<stats, metadata, features, file, fresh, lastWrite, ops,
                   prototypes, video_path, result, extra, encoderVars, extractVars,
                   train_label, run>>

\* _save in process p: the file is rewritten from p's collection
RaceSave(p) ==
    /\ pc[p] = "save"
    /\ file' = write_text(file, Save(store[p].samples))
    /\ lastWrite' = [by |-> p, op |-> "add_sample"]
    /\ pc' = [pc EXCEPT ![p] = "done"]
    /\ UNCHANGED <<stats, metadata, features, store, fresh, ops,
                   prototypes, video_path, result, extra, encoderVars, extractVars,
                   train_label, run>>

NextRace ==
    \/ \E p \in Procs : RaceLoad(p)
    \/ \E p \in Procs, label \in TrainLabels, f \in StoreRecords, source \in Sources :
           RaceAppend(p, label, f, source)
    \/ \E p \in Procs : RaceSave(p)

SpecRace == InitRace /\ [][NextRace]_vars

-----------------------------------------------------------------------------
(* main, run up to MaxRuns times in process "A" on one store file.  Each    *)
(* run analyses a video, classifies it and, with --train-label, stores it.  *)

\* what find_video_file returns
MainVideos == {Path("videos/clip.mp4"), Path("videos/explosion.mp4")}

\* args.train_label: None, or one of the classes
MainLabels == {None, JStr("theft"), JStr("explosion")}

\* the measurements extractor.extract returns
MainClips == {<<>>, <<Walker>>, <<Still, Still, Blast>>}

\* the store file before the first run
MainFiles ==
    { Missing, NotJson,
      JsonFile(JList(<<GoodEntry>>)),
      JsonFile(JList(<<JObj([label |-> JStr("explosion"), vector |-> JVector(BlastVector),
                             source |-> JStr("clip.mp4")])>>)),
      JsonFile(JList(<<JObj([label |-> JStr("arson"), vector |-> JVector(BlastVector),
                             source |-> JNull])>>)),
      JsonFile(JList(<<GoodEntry, JNull>>)) }

InitMain ==
    /\ file \in MainFiles
    /\ store = [p \in Procs |-> NoStore]
    /\ fresh = NoStore
    /\ lastWrite = NoWrite
    /\ ops = 0
    /\ RunIdle
    /\ ClassifyIdle
    /\ AggregateIdle
    /\ EncoderIdle
    /\ ExtractIdle

\* a run starts: args parsed, the video found and analysed
MainStart(path, label, clip) ==
    /\ pc["A"] \in {"idle", "exit", "crashed"}
    /\ run < MaxRuns
    /\ run' = run + 1
    /\ video_path' = path
    /\ train_label' = label
    /\ stats' = clip
    /\ metadata' = Meta
    /\ features' = Aggregate(clip, Meta)
    /\ store' = [store EXCEPT !["A"] = NoStore]
    /\ prototypes' = <<>>
    /\ result' = NotClassified
    /\ pc' = [pc EXCEPT !["A"] = "store"]
    /\ UNCHANGED <<file, fresh, lastWrite, ops, extra, encoderVars, extractVars>>

\* prototype_store = PrototypeStore(args.prototype_store)
MainLoad ==
    /\ pc["A"] = "store"
    /\ store' = [store EXCEPT !["A"] = NewStore(file)]
    /\ pc' = [pc EXCEPT !["A"] =
                 IF NewStore(file).state = "ready" THEN "classifier" ELSE "crashed"]
    /\ UNCHANGED <<stats, metadata, features, file, fresh, lastWrite, ops,
                   prototypes, video_path, result, extra, encoderVars, extractVars,
                   train_label, run>>

\* classifier = HeuristicCrimeClassifier(prototypes=list(prototype_store))
MainClassifier ==
    /\ pc["A"] = "classifier"
    /\ prototypes' = list_of(store["A"].samples)
    /\ pc' = [pc EXCEPT !["A"] = "classify"]
    /\ UNCHANGED <<stats, metadata, features, file, store, fresh, lastWrite, ops,
                   video_path, result, extra, encoderVars, extractVars,
                   train_label, run>>

\* classification = classifier.classify(features, video_path=video_path),
\* then the summary and the scores are printed
MainClassify ==
    /\ pc["A"] = "classify"
    /\ result' = classify(features, prototypes, video_path)
    /\ pc' = [pc EXCEPT !["A"] =
                 IF classify(features, prototypes, video_path).outcome = "ok"
                 THEN "train" ELSE "crashed"]
    /\ UNCHANGED <<stats, metadata, features, file, store, fresh, lastWrite, ops,
                   prototypes, video_path, extra, encoderVars, extractVars,
                   train_label, run>>

\* if args.train_label: prototype_store.add_sample(args.train_label, features, video_path)
MainTrain ==
    /\ pc["A"] = "train"
    /\ train_label # None
    /\ LET samples == AddedSamples(store["A"].samples, train_label.s, features, video_path)
       IN /\ store' = [store EXCEPT !["A"].samples = samples]
          /\ file' = write_text(file, Save(samples))
    /\ lastWrite' = [by |-> "A", op |-> "add_sample"]
    /\ pc' = [pc EXCEPT !["A"] = "exit"]
    /\ UNCHANGED <<stats, metadata, features, fresh, ops,
                   prototypes, video_path, result, extra, encoderVars, extractVars,
                   train_label, run>>

\* no --train-label: main returns
MainExit ==
    /\ pc["A"] = "train"
    /\ train_label = None
    /\ pc' = [pc EXCEPT !["A"] = "exit"]
    /\ UNCHANGED <<stats, metadata, features, file, store, fresh, lastWrite, ops,
                   prototypes, video_path, result, extra, encoderVars, extractVars,
                   train_label, run>>

NextMain ==
    \/ \E path \in MainVideos, label \in MainLabels, clip \in MainClips :
           MainStart(path, label, clip)
    \/ MainLoad
    \/ MainClassifier
    \/ MainClassify
    \/ MainTrain
    \/ MainExit

SpecMain == InitMain /\ [][NextMain]_vars

-----------------------------------------------------------------------------
(* Properties of the store, checked under Spec *)

\* C1: constructing a PrototypeStore never raises, whatever the file holds:
\* no store object, of a process or the fresh one, ends in the failed state.
C1_LoadFailSoft ==
    /\ \A p \in Procs : store[p].state # "failed"
    /\ fresh.state # "failed"

\* two samples of the collection carry the same source, which is not None
DuplicateSource(samples) ==
    \E i, j \in DOMAIN samples :
        /\ i < j
        /\ samples[i].source # JNull
        /\ samples[i].source = samples[j].source

\* C6: in a store that started empty, after any sequence of add_sample and
\* extend calls no two samples have the same non-null source.
C6_SourceUnique ==
    \A p \in Procs :
        (store[p].state = "ready" /\ store[p].loaded = 0)
            => ~DuplicateSource(store[p].samples)

\* C7: a fresh PrototypeStore constructed on the file that add_sample saved
\* last holds exactly the saving store's in-memory collection: same length,
\* order, labels, vectors and sources.
C7_RoundTrip ==
    (fresh.state # "absent" /\ lastWrite.op = "add_sample")
        => /\ fresh.state = "ready"
           /\ fresh.samples = store[lastWrite.by].samples

\* C7 happens: a fresh store read back two or more samples saved by
\* add_sample, one without a source and one with a source.
C7_Witness ==
    /\ fresh.state = "ready"
    /\ lastWrite.op = "add_sample"
    /\ Len(fresh.samples) >= 2
    /\ \E i \in DOMAIN fresh.samples : fresh.samples[i].source = JNull
    /\ \E i \in DOMAIN fresh.samples : fresh.samples[i].source.t = "str"

\* the step is an add_sample of process p
AddSampleBy(p) == lastWrite' = [by |-> p, op |-> "add_sample"] /\ ops' = ops + 1

\* post is pre without the samples of the new sample's source (all of pre
\* when the new sample has no source), followed by the new sample, which
\* carries a label and an encoded record add_sample was called with; the
\* file after the step loads to exactly post
ReplacedBySource(pre, post, written) ==
    /\ post # <<>>
    /\ LET new == post[Len(post)]
           kept == IF new.source = JNull THEN pre
                   ELSE SelectSeq(pre, LAMBDA s : s.source # new.source)
       IN /\ post = Append(kept, new)
          /\ new.label \in TrainLabels
          /\ \E f \in StoreRecords : new.vector = build_feature_vector(f)
    /\ Load(written).error = "none"
    /\ Load(written).samples = post

\* C15: add_sample removes every existing sample whose source equals the
\* new sample's source (none when no source is given), keeps every other
\* sample unchanged and in order, puts the new sample last, and leaves the
\* file holding exactly the resulting collection.
C15_AddSampleEffect ==
    [][ \A p \in Procs :
            AddSampleBy(p) =>
                ReplacedBySource(store[p].samples, store'[p].samples, file') ]_vars

\* C15 for sources with a file name: the same statement for every add_sample
\* whose new sample has no source or a non-empty source name.
C15_EffectForNamedSource ==
    [][ \A p \in Procs :
            (AddSampleBy(p) /\ store'[p].samples[Len(store'[p].samples)].source # JStr(""))
                => ReplacedBySource(store[p].samples, store'[p].samples, file') ]_vars

-----------------------------------------------------------------------------
(* Properties of classify, checked under SpecClassify *)

\* a source name is supplied (video_path is neither None nor "")
Supplied == ~Falsy(video_path)

\* the lower-cased stem of the supplied source name
LowerStem == Lower(Stem(video_path.p))

\* C2: for a record with frame_samples > 0, whatever the prototypes and the
\* hint, classify returns a result whose scores have exactly the six class
\* keys; it does not fail.
C2_SixScores ==
    (result # NotClassified /\ features.frame_samples > 0)
        => /\ result.outcome = "ok"
           /\ DOMAIN result.scores = ClassSet

\* C3 as stated: whenever the lower-cased stem contains "explosion", the
\* label classify returns is explosion, whatever else the stem contains.
C3_ExplosionAlways ==
    (result.outcome = "ok" /\ Supplied /\ Contains(LowerStem, "explosion"))
        => result.label = "explosion"

\* C3 amended: whenever the lower-cased stem contains "explosion" and does
\* not contain "acci", the label classify returns is explosion.
C3_ExplosionUnlessAccident ==
    (result.outcome = "ok" /\ Supplied /\ Contains(LowerStem, "explosion")
        /\ ~Contains(LowerStem, "acci"))
        => result.label = "explosion"

\* C3 happens: a stem with "explosion" and a keyword of another label
\* ("rob"), classified as explosion although explosion is not the best score.
C3_Witness ==
    /\ result.outcome = "ok"
    /\ Supplied
    /\ Contains(LowerStem, "explosion")
    /\ Contains(LowerStem, "rob")
    /\ result.label = "explosion"
    /\ \E l \in ClassSet : result.scores[l] > result.scores["explosion"]

\* C4: on a record with frame_samples = 0 classify fails with the
\* insufficient-data error (the ValueError) before any score, bonus or
\* override is computed, whatever the prototypes and the hint.
C4_NoFramesFails ==
    /\ (result # NotClassified /\ features.frame_samples = 0)
           => (result.outcome = "ValueError" /\ result.computed = {})
    /\ (extra # NoExtra /\ features.frame_samples = 0)
           => (extra.result.outcome = "ValueError" /\ extra.result.computed = {})

\* C4 happens: classify failed on a record without frames although there
\* are prototypes and the hint matches an override keyword.
C4_Witness ==
    /\ features.frame_samples = 0
    /\ result.outcome = "ValueError"
    /\ prototypes # <<>>
    /\ _filename_override(video_path).found

\* the similarity P gives each label for the record, and its total
Accum == Accumulate([l \in ClassSet |-> 0], build_feature_vector(features), prototypes)
AccumTotal == SumOver(Accum, DOMAIN Accum)

\* both classifications, with P and with P plus the extra prototype, returned
BothReturned == extra # NoExtra /\ result.outcome = "ok" /\ extra.result.outcome = "ok"

ClassIndex(l) == CHOOSE i \in DOMAIN classes : classes[i] = l

\* C8: without a matching hint the label has a maximal score, and every
\* class before it in the order robbery, theft, assault, explosion,
\* road accident, normal has a strictly smaller score.
C8_ArgMaxFirst ==
    (result.outcome = "ok" /\ ~_filename_override(video_path).found)
        => /\ result.label \in ClassSet
           /\ \A l \in ClassSet : result.scores[l] <= result.scores[result.label]
           /\ \A l \in ClassSet :
                  ClassIndex(l) < ClassIndex(result.label)
                      => result.scores[l] < result.scores[result.label]

\* C8 happens: two classes tie for the maximum and the earlier one is the label.
C8_Witness ==
    /\ result.outcome = "ok"
    /\ ~_filename_override(video_path).found
    /\ \E l \in ClassSet :
           /\ l # result.label
           /\ result.scores[l] = result.scores[result.label]
           /\ ClassIndex(result.label) < ClassIndex(l)

\* the labels of the override table, in table order, and their keywords
OverrideOrder == <<"road accident", "explosion", "robbery", "theft">>

OverrideKeywords ==
    ("road accident" :> {"accident", "acci"})
    @@ ("explosion" :> {"explosion", "expl", "exp"})
    @@ ("robbery" :> {"robbery", "rob"})
    @@ ("theft" :> {"theft", "steal", "new"})

\* label i of the table has a keyword contained in the stem
Hits(i) == \E k \in OverrideKeywords[OverrideOrder[i]] : Contains(LowerStem, k)

\* C9: when the lower-cased stem of the supplied name contains an override
\* keyword, the label is the first label in table order with a keyword in
\* the stem, and the scores are those computed without any hint.
C9_OverrideFirstInTable ==
    (result.outcome = "ok" /\ Supplied /\ \E i \in DOMAIN OverrideOrder : Hits(i))
        => /\ \E i \in DOMAIN OverrideOrder :
                  /\ Hits(i)
                  /\ \A j \in 1..(i - 1) : ~Hits(j)
                  /\ result.label = OverrideOrder[i]
           /\ result.scores = classify(features, prototypes, NoPath).scores

\* C9 happens: the stem holds keywords of two labels, the label is the
\* earlier one in the table, and it is not a class of maximal score.
C9_Witness ==
    /\ result.outcome = "ok"
    /\ Supplied
    /\ \E i, j \in DOMAIN OverrideOrder :
           i < j /\ Hits(i) /\ Hits(j) /\ result.label = OverrideOrder[i]
    /\ \E l \in ClassSet : result.scores[l] > result.scores[result.label]

\* the scores of the record in hand before any prototype bonus
Base == BaseScores(features)

\* the bonus is normalised: every score is at least the score without
\* prototypes, each rise is 0.2 times the label's share of the total
\* similarity, and the six rises sum to 0.2 (within the rounding of six
\* fixed-point divisions)
RisesByShares ==
    /\ DOMAIN result.scores = ClassSet
    /\ \A c \in ClassSet :
           LET rise == result.scores[c] - Base[c]
               share == Div(Accum[c] * Unit, AccumTotal)
           IN /\ rise >= 0
              /\ 10 * rise <= 2 * share
              /\ 2 * share < 10 * (rise + 1)
    /\ LET total == SumOver([c \in ClassSet |-> result.scores[c] - Base[c]], ClassSet)
       IN /\ total <= 2 * (Unit \div 10)
          /\ total >= 2 * (Unit \div 10) - 12

\* C14: for a record with frame_samples > 0, classify returns six scores;
\* with a non-empty collection of positive total similarity they are the
\* scores without prototypes plus 0.2 times per-label shares that sum to 1
\* over the six classes; with an empty collection or a total similarity of 0
\* they equal the scores without prototypes.
C14_BonusNormalised ==
    (result # NotClassified /\ features.frame_samples > 0)
        => /\ result.outcome = "ok"
           /\ IF prototypes # <<>> /\ AccumTotal > 0
              THEN RisesByShares
              ELSE result.scores = Base

\* C14 for the calls that return: the same statement, given that classify
\* returned a result.
C14_NormalisedWhenReturned ==
    result.outcome = "ok"
        => IF prototypes # <<>> /\ AccumTotal > 0
           THEN RisesByShares
           ELSE result.scores = Base

\* C14 happens: two prototypes of different classes share the bonus
C14_Witness ==
    /\ result.outcome = "ok"
    /\ Len(prototypes) = 2
    /\ \E c, d \in ClassSet : c # d /\ Accum[c] > 0 /\ Accum[d] > 0

-----------------------------------------------------------------------------
(* Properties of _aggregate, checked under SpecAggregate *)

RatioFields ==
    { "crowd_ratio", "solo_motion_ratio", "motion_burst_ratio",
      "person_presence_ratio", "multi_person_ratio", "motion_presence_ratio",
      "active_motion_ratio", "late_motion_ratio", "calm_ratio" }

\* C10: for a non-empty measurement sequence every ratio field of the
\* aggregated record lies in [0, 1].
C10_RatiosInUnitInterval ==
    (features # NoFeatures /\ stats # <<>>)
        => \A r \in RatioFields : 0 <= features[r] /\ features[r] <= Unit

\* C10 happens: three or more measurements aggregated, with a calm ratio and
\* a late-motion ratio strictly inside the interval or at its upper end.
C10_Witness ==
    /\ features # NoFeatures
    /\ Len(stats) >= 3
    /\ 0 < features.calm_ratio /\ features.calm_ratio < Unit
    /\ features.late_motion_ratio = Unit
    /\ 0 < features.active_motion_ratio /\ features.active_motion_ratio < Unit

\* the fields of a record that are neither frame_samples, calm_ratio nor
\* copied from the metadata
ZeroWhenEmpty ==
    { "average_motion", "peak_motion", "motion_std", "crowd_ratio",
      "solo_motion_ratio", "motion_burst_ratio", "person_presence_ratio",
      "multi_person_ratio", "motion_presence_ratio", "active_motion_ratio",
      "late_motion_ratio", "motion_trend", "median_person_count",
      "mean_person_count", "avg_moving_objects", "max_moving_objects" }

\* C11: aggregating an empty measurement sequence returns a record with
\* frame_samples = 0, calm_ratio = 1.0, every other ratio and statistic 0.0,
\* and duration_seconds and fps_estimate equal to the metadata's; the record
\* is a function of the metadata alone.
C11_EmptyIsNeutral ==
    (features # NoFeatures /\ stats = <<>>)
        => /\ DOMAIN features =
                  ZeroWhenEmpty \cup {"frame_samples", "calm_ratio",
                                      "duration_seconds", "fps_estimate"}
           /\ features.frame_samples = 0
           /\ features.calm_ratio = Unit
           /\ \A k \in ZeroWhenEmpty : features[k] = 0
           /\ features.duration_seconds = metadata.duration_seconds
           /\ features.fps_estimate = metadata.fps

\* C11 happens: an empty sequence was aggregated under metadata whose
\* duration and fps are different non-zero numbers.
C11_Witness ==
    /\ stats = <<>>
    /\ features # NoFeatures
    /\ metadata.fps # 0
    /\ metadata.duration_seconds # 0
    /\ metadata.fps # metadata.duration_seconds

\* the positions of the last k measurements of stats
LastPositions(k) == {i \in DOMAIN stats : i > Len(stats) - k}

\* the fraction of the last k measurements with motion_magnitude >= 0.35
LateActiveFraction(k) ==
    (Cardinality({i \in LastPositions(k) :
                     stats[i].motion_magnitude >= (35 * Unit) \div 100}) * Unit) \div k

\* C13 as the specification words it: the segment length is floor(n/3); a
\* sequence of fewer than three measurements has an empty last segment, so
\* late_motion_ratio is the global active_motion_ratio and motion_trend is 0.
C13_SegmentIsFloor ==
    (features # NoFeatures /\ stats # <<>>)
        => LET k == Len(stats) \div 3
           IN IF k = 0
              THEN /\ features.late_motion_ratio = features.active_motion_ratio
                   /\ features.motion_trend = 0
              ELSE features.late_motion_ratio = LateActiveFraction(k)

\* C13, amended: the segment length is max(1, floor(n/3)), so the last
\* segment is never empty; late_motion_ratio is the active fraction of the
\* last max(1, floor(n/3)) measurements and motion_trend is the mean motion
\* of the last segment minus that of the first; for n < 3 the segments are
\* the single last and the single first measurement.
C13_SegmentAtLeastOne ==
    (features # NoFeatures /\ stats # <<>>)
        => LET n == Len(stats)
               k == IF n \div 3 >= 1 THEN n \div 3 ELSE 1
               motion == [i \in 1..n |-> stats[i].motion_magnitude]
           IN /\ features.late_motion_ratio = LateActiveFraction(k)
              /\ features.motion_trend =
                     Mean(SubSeq(motion, n - k + 1, n)) - Mean(SubSeq(motion, 1, k))
              /\ n < 3 =>
                     /\ features.late_motion_ratio =
                            (IF motion[n] >= (35 * Unit) \div 100 THEN Unit ELSE 0)
                     /\ features.motion_trend = motion[n] - motion[1]

\* C13 happens: two measurements aggregated, the last one active and the
\* first one not, so the last segment differs from the whole sequence.
C13_Witness ==
    /\ features # NoFeatures
    /\ Len(stats) = 2
    /\ features.late_motion_ratio = Unit
    /\ features.active_motion_ratio = Unit \div 2
    /\ features.motion_trend > 0

-----------------------------------------------------------------------------
(* Properties of build_feature_vector, checked under SpecEncode *)

\* the field order of the vector and the scale of each field
C12_FieldOrder ==
    << "average_motion", "peak_motion", "motion_std", "crowd_ratio",
       "motion_burst_ratio", "person_presence_ratio", "active_motion_ratio",
       "late_motion_ratio", "avg_moving_objects", "max_moving_objects",
       "calm_ratio", "multi_person_ratio" >>

C12_Scale ==
    ("average_motion" :> 5) @@ ("peak_motion" :> 10) @@ ("motion_std" :> 5)
    @@ ("avg_moving_objects" :> 4) @@ ("max_moving_objects" :> 6)

\* v is the encoding of record f: twelve components, component i made from
\* field i of the order (divided by the field's scale) and within [-2.0, 2.0]
C12_Encodes(v, f) ==
    /\ Len(v) = 12
    /\ \A i \in 1..12 :
           LET field == C12_FieldOrder[i]
               scale == IF field \in DOMAIN C12_Scale THEN C12_Scale[field] ELSE 1
               x == Div(f[field], scale)
           IN /\ 0 - 2 * Unit <= v[i] /\ v[i] <= 2 * Unit
              /\ (0 - 2 * Unit <= x /\ x <= 2 * Unit) => v[i] = x
              /\ x > 2 * Unit => v[i] = 2 * Unit
              /\ x < 0 - 2 * Unit => v[i] = 0 - 2 * Unit

\* C12: every call of build_feature_vector leaves the record unchanged and
\* returns a vector of exactly 12 components, in the fixed field order, each
\* within [-2.0, 2.0]; a second call on the same record returns the same
\* vector as the first.
C12_EncodeShape ==
    [][ vectors' # vectors =>
            /\ features' = features
            /\ \A k \in DOMAIN vectors' :
                   /\ C12_Encodes(vectors'[k], features)
                   /\ vectors'[k] = vectors'[1] ]_vars

\* C12 happens: a record was encoded twice, and its vector holds a component
\* clamped at 2.0, one clamped at -2.0 and one strictly between
C12_Witness ==
    /\ Len(vectors) = 2
    /\ \E i, j, k \in 1..12 :
           /\ vectors[2][i] = 2 * Unit
           /\ vectors[2][j] = 0 - 2 * Unit
           /\ 0 - 2 * Unit < vectors[2][k] /\ vectors[2][k] < 0

-----------------------------------------------------------------------------
(* Properties of extract_frame_stats, checked under SpecExtract *)

\* the stride as the specification words it: max(1, round(effectiveFps /
\* sampleRate)) with 24 fps assumed when the source reports none, and 1 when
\* the sample rate is not positive
C16_Stride ==
    LET effectiveFps == IF capture.fps > 0 THEN capture.fps ELSE 24 * Unit
        rounded == RoundHalfEven(effectiveFps, sample_rate)
    IN IF sample_rate <= 0 \/ rounded < 1 THEN 1 ELSE rounded

\* the collected frames are the first multiples of the stride, in increasing
\* order, and every frame read so far that is such a multiple was collected
MultiplesOfStride ==
    /\ \A i \in DOMAIN stats : stats[i].index = (i - 1) * C16_Stride
    /\ \A i \in 0..(capture.read - 1) :
           i % C16_Stride = 0 => \E k \in DOMAIN stats : stats[k].index = i

\* nothing was read after the frame that brought the count to the cap n
StoppedAtCap(n) ==
    Len(stats) >= n =>
        capture.read = (IF n = 0 THEN 0 ELSE stats[n].index + 1)

\* C16: whenever a maximum sample count (0 or more) is supplied, the
\* collected sequence never holds more measurements than the cap and no frame
\* is read once the cap is reached; the collected frames are those whose
\* index is a multiple of the stride, in increasing index order.
C16_SampleCap ==
    /\ MultiplesOfStride
    /\ (max_samples # None /\ max_samples.n >= 0) =>
           /\ Len(stats) <= max_samples.n
           /\ StoppedAtCap(max_samples.n)

\* C16 for a positive cap: the same statement when the supplied maximum
\* sample count is at least 1.
C16_PositiveCap ==
    /\ MultiplesOfStride
    /\ (max_samples # None /\ max_samples.n >= 1) =>
           /\ Len(stats) <= max_samples.n
           /\ StoppedAtCap(max_samples.n)

\* C16 happens: the sampler returned at the cap with frames left unread,
\* having skipped frames between the samples
C16_Witness ==
    /\ pc["A"] = "done"
    /\ max_samples # None
    /\ Len(stats) = max_samples.n
    /\ Len(stats) >= 2
    /\ capture.read < capture.frames
    /\ Stride(capture.fps, sample_rate) >= 2

-----------------------------------------------------------------------------
(* Properties of two processes sharing the store file, checked under SpecRace *)

\* the other process
Other(p) == CHOOSE q \in Procs : q # p

\* the samples a fresh load of the file gives
OnFile == Load(file).samples

-----------------------------------------------------------------------------
(* Properties of main, checked under SpecMain *)

\* the sample this run's add_sample stores
OwnSample ==
    PrototypeSample(train_label.s, build_feature_vector(features), SourceName(video_path))

\* C18: whenever a run of main modifies the store file, its classification
\* has already been returned and is not changed by the step: it was computed
\* from the classifier's snapshot, which is what the file held before the
\* step (the prototypes earlier runs persisted) and which the step leaves
\* unchanged, while the file afterwards ends with this run's own sample.
C18_SnapshotBeforeTraining ==
    [][ file' # file =>
            /\ result.outcome = "ok"
            /\ result' = result
            /\ prototypes' = prototypes
            /\ prototypes = Load(file).samples
            /\ result = classify(features, prototypes, video_path)
            /\ Load(file').samples # <<>>
            /\ Load(file').samples[Len(Load(file').samples)] = OwnSample ]_vars

\* C18 happens: a later run classified with a prototype an earlier run
\* stored under the same source name, then replaced it by its own sample, and
\* its printed scores differ from what the collection it leaves would give.
C18_Witness ==
    /\ pc["A"] = "exit"
    /\ run = 2
    /\ train_label # None
    /\ result.outcome = "ok"
    /\ \E i \in DOMAIN prototypes :
           /\ prototypes[i].source = SourceName(video_path)
           /\ prototypes[i] # OwnSample
    /\ \A i \in DOMAIN store["A"].samples :
           store["A"].samples[i].source = SourceName(video_path)
               => store["A"].samples[i] = OwnSample
    /\ classify(features, store["A"].samples, video_path).scores # result.scores

=============================================================================
